---------------------------- MODULE Spec2Model ----------------------------
(***************************************************************************)
(* A model of token_calc.py: the OpenAICostCalculator class, get_input,    *)
(* and main().                                                             *)
(*                                                                         *)
(* Python values are records [t, sp, m, e, s]:                             *)
(*   t  : the Python type ("int", "float", "bool", "str", "NoneType");     *)
(*   sp : "fin" for a finite number, "inf", "nan", or "na" for a value     *)
(*        that is no number;                                               *)
(*   m,e: a finite number is m * 10^(-e), kept normalised (m has no        *)
(*        trailing zero unless e = 0); for an infinity m is its sign;      *)
(*   s  : the characters of a str.                                         *)
(* Finite arithmetic is exact decimal arithmetic: binary rounding of       *)
(* IEEE doubles, overflow to inf, underflow to zero and the sign of zero   *)
(* are not modelled.  Standard output is a sequence of events carrying the *)
(* values printed; the layout of the printed text is not modelled, and a   *)
(* ValueError of float() carries its message without the offending text.   *)
(***************************************************************************)
EXTENDS Integers, Sequences, FiniteSets, TLC

VARIABLES pc, locals, out, typed, calculator, args, ret

vars == <<pc, locals, out, typed, calculator, args, ret>>

---------------------------------------------------------------------------
(* Bounds of the model. *)

\* Longest text drawn for get_input / float in SpecInput.
MaxLen == 3
\* Largest digit typed at a prompt of main().
MaxDigit == 1
\* Largest int handed directly to the class in SpecApi.
MaxArg == 2

---------------------------------------------------------------------------
(* Values. *)

RECURSIVE NormM(_, _)
NormM(m, e) == IF e > 0 /\ m % 10 = 0 THEN NormM(m \div 10, e - 1) ELSE m

RECURSIVE NormE(_, _)
NormE(m, e) == IF e > 0 /\ m % 10 = 0 THEN NormE(m \div 10, e - 1) ELSE e

Num(t, m, e) == [t |-> t, sp |-> "fin", m |-> NormM(m, e), e |-> NormE(m, e), s |-> <<>>]
PyInt(n) == Num("int", n, 0)
PyFloat(m, e) == Num("float", m, e)
Inf(sign) == [t |-> "float", sp |-> "inf", m |-> sign, e |-> 0, s |-> <<>>]
NaN == [t |-> "float", sp |-> "nan", m |-> 0, e |-> 0, s |-> <<>>]
PyBool(b) == [t |-> "bool", sp |-> "fin", m |-> IF b THEN 1 ELSE 0, e |-> 0, s |-> <<>>]
PyStr(chars) == [t |-> "str", sp |-> "na", m |-> 0, e |-> 0, s |-> chars]
None == [t |-> "NoneType", sp |-> "na", m |-> 0, e |-> 0, s |-> <<>>]
\* A local or a field that has not been assigned.
Unset == [t |-> "unset", sp |-> "na", m |-> 0, e |-> 0, s |-> <<>>]

Sgn(n) == IF n > 0 THEN 1 ELSE IF n < 0 THEN -1 ELSE 0

RECURSIVE Pow10(_)
Pow10(k) == IF k = 0 THEN 1 ELSE 10 * Pow10(k - 1)

Max(a, b) == IF a >= b THEN a ELSE b

\* isinstance(arg, (int, float)); bool is a subclass of int.
IsInstanceIntFloat(v) == v.t \in {"int", "float", "bool"}

\* arg > 0 for a number: every comparison with nan is False.
GtZero(v) == v.sp \in {"fin", "inf"} /\ v.m > 0

\* a <= b for two numbers.
Leq(a, b) ==
    CASE a.sp = "nan" \/ b.sp = "nan" -> FALSE
      [] a.sp = "inf" -> a.m < 0 \/ (b.sp = "inf" /\ b.m > 0)
      [] b.sp = "inf" -> b.m > 0
      [] OTHER -> LET k == Max(a.e, b.e)
                  IN  a.m * Pow10(k - a.e) <= b.m * Pow10(k - b.e)

\* The type of an arithmetic result: float if either operand is a float.
ArithType(a, b) == IF a.t = "float" \/ b.t = "float" THEN "float" ELSE "int"

\* a * b for two numbers.
Mul(a, b) ==
    CASE a.sp = "nan" \/ b.sp = "nan" -> NaN
      [] a.sp = "inf" \/ b.sp = "inf" ->
            IF a.m = 0 \/ b.m = 0 THEN NaN ELSE Inf(Sgn(a.m) * Sgn(b.m))
      [] OTHER -> Num(ArithType(a, b), a.m * b.m, a.e + b.e)

\* a / 10^k for a number (true division: the result is a float).
DivPow10(a, k) ==
    CASE a.sp = "nan" -> NaN
      [] a.sp = "inf" -> a
      [] OTHER -> PyFloat(a.m, a.e + k)

---------------------------------------------------------------------------
(* float(): the conversion main() applies to what get_input returns. *)

Digits == <<"0", "1", "2", "3", "4", "5", "6", "7", "8", "9">>
DigitSet == {Digits[i] : i \in 1..10}
DigitVal(c) == (CHOOSE i \in 1..10 : Digits[i] = c) - 1

\* Characters of the modelled texts.  Exponents ("e"), underscores and upper
\* case, which float() also accepts, are outside the alphabet.
Alphabet == {"0", "1", "5", "-", ".", "x", " ", "i", "n", "f", "a"}

RECURSIVE StripLeft(_)
StripLeft(s) == IF s # <<>> /\ Head(s) = " " THEN StripLeft(Tail(s)) ELSE s

RECURSIVE StripRight(_)
StripRight(s) ==
    IF s # <<>> /\ s[Len(s)] = " " THEN StripRight(SubSeq(s, 1, Len(s) - 1)) ELSE s

Strip(s) == StripRight(StripLeft(s))

AllDigits(s) == \A i \in 1..Len(s) : s[i] \in DigitSet

RECURSIVE DigitsValue(_)
DigitsValue(s) ==
    IF s = <<>> THEN 0 ELSE 10 * DigitsValue(SubSeq(s, 1, Len(s) - 1)) + DigitVal(s[Len(s)])

Ok(v) == [ok |-> TRUE, v |-> v, exc |-> "", msg |-> ""]
Raise(exc, msg) == [ok |-> FALSE, v |-> Unset, exc |-> exc, msg |-> msg]

\* An unsigned decimal: digits [. digits] with at least one digit.
ParseDecimal(sign, body) ==
    LET dots == {i \in 1..Len(body) : body[i] = "."}
        dot  == IF dots = {} THEN Len(body) + 1
                ELSE CHOOSE i \in dots : \A j \in dots : i <= j
        ip   == SubSeq(body, 1, dot - 1)
        fp   == SubSeq(body, dot + 1, Len(body))
    IN  IF AllDigits(ip) /\ AllDigits(fp) /\ Len(ip) + Len(fp) >= 1
        THEN Ok(PyFloat(sign * DigitsValue(ip \o fp), Len(fp)))
        ELSE Raise("ValueError", "could not convert string to float")

ParseFloat(chars) ==
    LET st     == Strip(chars)
        signed == st # <<>> /\ Head(st) \in {"-", "+"}
        sign   == IF signed /\ Head(st) = "-" THEN -1 ELSE 1
        body   == IF signed THEN Tail(st) ELSE st
    IN  CASE body = <<"i", "n", "f">> -> Ok(Inf(sign))
          [] body = <<"n", "a", "n">> -> Ok(NaN)
          [] OTHER -> ParseDecimal(sign, body)

float(x) ==
    CASE x.t = "str" -> ParseFloat(x.s)
      [] x.t \in {"int", "bool", "float"} -> Ok([x EXCEPT !.t = "float"])
      [] OTHER -> Raise("TypeError", "float() argument must be a string or a real number")

---------------------------------------------------------------------------
(* get_input *)

\* What input() reads at end of input.
EOF == <<"EOF">>

\* Mutant: get_input itself converts the text typed to a number.
get_input_parses(prompt, default_value, user_input) ==
    IF user_input = EOF THEN Raise("EOFError", "EOF when reading a line")
    ELSE IF user_input # <<>> THEN float(PyStr(user_input)) ELSE Ok(default_value)

\* get_input(prompt, default_value) once input() has returned user_input.
get_input(prompt, default_value, user_input) ==
    IF user_input = EOF THEN Raise("EOFError", "EOF when reading a line")
    ELSE IF user_input # <<>> THEN Ok(PyStr(user_input)) ELSE Ok(default_value)


---------------------------------------------------------------------------
(* class OpenAICostCalculator *)

FieldNames == {"prompts_per_shift", "multiplier", "avg_tokens_per_call",
               "token_cost_per_thousand"}

\* An object none of whose attributes has been assigned.
NoObject == [f \in FieldNames |-> Unset]

\* Mutant: the test is arg >= 0, so a zero is accepted.
validate_inputs_accepts_zero(prompts_per_shift, multiplier, avg_tokens_per_call, token_cost_per_thousand) ==
    IF ~(\A arg \in {prompts_per_shift, multiplier, avg_tokens_per_call,
                      token_cost_per_thousand} :
            IsInstanceIntFloat(arg) /\ arg.sp \in {"fin", "inf"} /\ arg.m >= 0)
    THEN [ok |-> FALSE, v |-> Unset, exc |-> "ValueError",
          msg |-> "All parameters should be positive numbers."]
    ELSE [ok |-> TRUE, v |-> None, exc |-> "", msg |-> ""]

validate_inputs(prompts_per_shift, multiplier, avg_tokens_per_call, token_cost_per_thousand) ==
    IF ~(\A arg \in {prompts_per_shift, multiplier, avg_tokens_per_call,
                      token_cost_per_thousand} :
            IsInstanceIntFloat(arg) /\ GtZero(arg))
    THEN Raise("ValueError", "All parameters should be positive numbers.")
    ELSE Ok(None)

\* Mutant: the four attributes are assigned before the arguments are validated.
init_assigns_first(self, prompts_per_shift, multiplier, avg_tokens_per_call, token_cost_per_thousand) ==
    [obj |-> [prompts_per_shift       |-> prompts_per_shift,
              multiplier              |-> multiplier,
              avg_tokens_per_call     |-> avg_tokens_per_call,
              token_cost_per_thousand |-> token_cost_per_thousand],
     r   |-> validate_inputs(prompts_per_shift, multiplier, avg_tokens_per_call,
                             token_cost_per_thousand)]

\* __init__: the object after the call, and how the call ended.
init(self, prompts_per_shift, multiplier, avg_tokens_per_call, token_cost_per_thousand) ==
    LET r == validate_inputs(prompts_per_shift, multiplier, avg_tokens_per_call,
                             token_cost_per_thousand)
    IN  IF ~r.ok THEN [obj |-> self, r |-> r]
        ELSE [obj |-> [prompts_per_shift       |-> prompts_per_shift,
                       multiplier              |-> multiplier,
                       avg_tokens_per_call     |-> avg_tokens_per_call,
                       token_cost_per_thousand |-> token_cost_per_thousand],
              r   |-> Ok(None)]

\* Mutant: the multiplier is left out of the product.
calculate_tokens_per_shift_no_multiplier(self) ==
    Mul(self.prompts_per_shift, self.avg_tokens_per_call)

calculate_tokens_per_shift(self) ==
    Mul(Mul(self.prompts_per_shift, self.multiplier), self.avg_tokens_per_call)

\* Mutant: the token count is divided by 100, not by 1000.
calculate_cost_per_shift_per_hundred(self) ==
    Mul(DivPow10(calculate_tokens_per_shift(self), 2), self.token_cost_per_thousand)

calculate_cost_per_shift(self) ==
    LET tokens_per_shift == calculate_tokens_per_shift(self)
    IN  Mul(DivPow10(tokens_per_shift, 3), self.token_cost_per_thousand)

calculate_cost_per_hospital_per_shift(self, doctors_per_shift) ==
    Mul(calculate_cost_per_shift(self), doctors_per_shift)

calculate_daily_costs(self, shifts_per_day, doctors_per_shift) ==
    Mul(calculate_cost_per_hospital_per_shift(self, doctors_per_shift), shifts_per_day)

days_per_month == 30

\* Mutant: a month of 31 days.
calculate_monthly_costs_31(self, daily_costs) == Mul(daily_costs, PyInt(days_per_month + 1))

calculate_monthly_costs(self, daily_costs) == Mul(daily_costs, PyInt(days_per_month))

months_per_year == 12

calculate_annual_costs(self, monthly_costs) == Mul(monthly_costs, PyInt(months_per_year))

---------------------------------------------------------------------------
(* main() *)

default_prompts_per_shift == 50
default_multiplier == 5
default_avg_tokens_per_call == 2000
default_token_cost_per_thousand == PyFloat(6, 2)
default_doctors_per_shift == 10
default_shifts_per_day == 3

\* The six get_input calls of main(), in program order: the local assigned,
\* the prompt and the default.
Inputs ==
    << [name |-> "prompts_per_shift", default |-> PyInt(default_prompts_per_shift),
        prompt |-> "Enter the number of prompts sent per doctor's shift"],
       [name |-> "multiplier", default |-> PyInt(default_multiplier),
        prompt |-> "Enter the chain/interaction/augmentation multiplier"],
       [name |-> "avg_tokens_per_call", default |-> PyInt(default_avg_tokens_per_call),
        prompt |-> "Enter the average tokens used per API call"],
       [name |-> "token_cost_per_thousand", default |-> default_token_cost_per_thousand,
        prompt |-> "Enter the OpenAI price per 1000 tokens (GPT-4=$0.06) (in $)"],
       [name |-> "doctors_per_shift", default |-> PyInt(default_doctors_per_shift),
        prompt |-> "Enter the number of doctors on shift per hospital"],
       [name |-> "shifts_per_day", default |-> PyInt(default_shifts_per_day),
        prompt |-> "Enter the number of shifts per day"] >>

InputNames == {Inputs[i].name : i \in 1..6}
CostNames == {"cost_per_shift", "cost_per_hospital_per_shift", "daily_costs",
              "monthly_costs", "annual_costs"}
LocalNames == InputNames \cup CostNames

\* What the operator may type at a prompt of main(): nothing, a digit, a
\* negative number, a fraction, "inf", or text that is no number.
MainTexts ==
    {<<>>, <<"-", "1">>, <<".", "5">>, <<"i", "n", "f">>, <<"x">>}
        \cup {<<Digits[d + 1]>> : d \in 0..MaxDigit}

\* Standard output is a sequence of events [ev, arg].
Event(ev, arg) == [ev |-> ev, arg |-> arg]

\* input(f"{prompt} [{default_value}]: ") writes the prompt.
PromptEvent(i) == Event("prompt", <<Inputs[i].prompt, Inputs[i].default>>)

\* Mutant: the catch-all clause comes first and catches every exception.
ExceptClause_catch_all_first(r) ==
    Event("error", <<"An unexpected error occurred: ", r.msg>>)

\* The two except clauses of main().
ExceptClause(r) ==
    IF r.exc = "ValueError" THEN Event("error", <<"Invalid input: ", r.msg>>)
    ELSE Event("error", <<"An unexpected error occurred: ", r.msg>>)

\* Mutant: the pricing display comes after the token-cost prompt.
AfterInput_pricing_late(i) ==
    CASE i = 1 -> "L117" [] i = 2 -> "L118" [] i = 3 -> "L120"
      [] i = 4 -> "L119" [] i = 5 -> "L122" [] i = 6 -> "L125"

\* The program position after the i-th input statement.
AfterInput(i) ==
    CASE i = 1 -> "L117" [] i = 2 -> "L118" [] i = 3 -> "L119"
      [] i = 4 -> "L121" [] i = 5 -> "L122" [] i = 6 -> "L125"

\* Mutant: a failed input is reported and the run goes on with the default.
InputStatement_goes_on(i, user_input) ==
    LET g == get_input(Inputs[i].prompt, Inputs[i].default, user_input)
        f == IF g.ok THEN float(g.v) ELSE g
    IN  /\ typed' = Append(typed, user_input)
        /\ IF f.ok
           THEN /\ locals' = [locals EXCEPT ![Inputs[i].name] = f.v]
                /\ out' = Append(out, PromptEvent(i))
           ELSE /\ locals' = [locals EXCEPT ![Inputs[i].name] = float(Inputs[i].default).v]
                /\ out' = out \o <<PromptEvent(i), ExceptClause(f)>>
        /\ pc' = AfterInput(i)
        /\ UNCHANGED <<calculator, args, ret>>

\* x = float(get_input(prompt, default)) with user_input typed at the prompt.
InputStatement(i, user_input) ==
    LET g == get_input(Inputs[i].prompt, Inputs[i].default, user_input)
        f == IF g.ok THEN float(g.v) ELSE g
    IN  /\ typed' = Append(typed, user_input)
        /\ IF f.ok
           THEN /\ locals' = [locals EXCEPT ![Inputs[i].name] = f.v]
                /\ out' = Append(out, PromptEvent(i))
                /\ pc' = AfterInput(i)
           ELSE /\ locals' = locals
                /\ out' = out \o <<PromptEvent(i), ExceptClause(f)>>
                /\ pc' = "done"
        /\ UNCHANGED <<calculator, args, ret>>

L116 == pc = "L116" /\ \E user_input \in MainTexts \cup {EOF} : InputStatement(1, user_input)
L117 == pc = "L117" /\ \E user_input \in MainTexts \cup {EOF} : InputStatement(2, user_input)
L118 == pc = "L118" /\ \E user_input \in MainTexts \cup {EOF} : InputStatement(3, user_input)

\* print_pricing(): json.dumps of the (empty) pricing dictionary.
print_pricing == Event("pricing", <<"{}">>)

L119 ==
    /\ pc = "L119"
    /\ out' = Append(out, print_pricing)
    /\ pc' = "L120"
    /\ UNCHANGED <<locals, typed, calculator, args, ret>>

L120 == pc = "L120" /\ \E user_input \in MainTexts \cup {EOF} : InputStatement(4, user_input)
L121 == pc = "L121" /\ \E user_input \in MainTexts \cup {EOF} : InputStatement(5, user_input)
L122 == pc = "L122" /\ \E user_input \in MainTexts \cup {EOF} : InputStatement(6, user_input)

\* Mutant: doctors_per_shift and shifts_per_day are validated like the others.
L125_validates_all ==
    /\ pc = "L125"
    /\ LET c == init(NoObject, locals["prompts_per_shift"], locals["multiplier"],
                     locals["avg_tokens_per_call"], locals["token_cost_per_thousand"])
           v == validate_inputs(locals["doctors_per_shift"], locals["shifts_per_day"],
                                locals["doctors_per_shift"], locals["shifts_per_day"])
       IN  IF c.r.ok /\ v.ok
           THEN calculator' = c.obj /\ out' = out /\ pc' = "L126"
           ELSE calculator' = calculator
                /\ out' = Append(out, ExceptClause(IF c.r.ok THEN v ELSE c.r))
                /\ pc' = "done"
    /\ UNCHANGED <<locals, typed, args, ret>>

\* calculator = OpenAICostCalculator(...)
L125 ==
    /\ pc = "L125"
    /\ LET c == init(NoObject, locals["prompts_per_shift"], locals["multiplier"],
                     locals["avg_tokens_per_call"], locals["token_cost_per_thousand"])
       IN  IF c.r.ok
           THEN calculator' = c.obj /\ out' = out /\ pc' = "L126"
           ELSE calculator' = calculator /\ out' = Append(out, ExceptClause(c.r))
                /\ pc' = "done"
    /\ UNCHANGED <<locals, typed, args, ret>>

\* The five figures, lines 126-130.
Figures(self, doctors_per_shift, shifts_per_day) ==
    LET cost_per_shift == calculate_cost_per_shift(self)
        cost_per_hospital_per_shift ==
            calculate_cost_per_hospital_per_shift(self, doctors_per_shift)
        daily_costs == calculate_daily_costs(self, shifts_per_day, doctors_per_shift)
        monthly_costs == calculate_monthly_costs(self, daily_costs)
        annual_costs == calculate_annual_costs(self, monthly_costs)
    IN  [cost_per_shift |-> cost_per_shift,
         cost_per_hospital_per_shift |-> cost_per_hospital_per_shift,
         daily_costs |-> daily_costs,
         monthly_costs |-> monthly_costs,
         annual_costs |-> annual_costs]

L126 ==
    /\ pc = "L126"
    /\ LET fig == Figures(calculator, locals["doctors_per_shift"], locals["shifts_per_day"])
       IN  locals' = [n \in LocalNames |-> IF n \in CostNames THEN fig[n] ELSE locals[n]]
    /\ pc' = "L133"
    /\ UNCHANGED <<out, typed, calculator, args, ret>>

describe_scenario(prompts_per_shift, multiplier, avg_tokens_per_call, token_cost_per_thousand, doctors_per_shift, shifts_per_day) ==
    <<prompts_per_shift, multiplier, avg_tokens_per_call, token_cost_per_thousand,
      doctors_per_shift, shifts_per_day>>

display_results(cost_per_shift, cost_per_hospital_per_shift, daily_costs, monthly_costs, annual_costs) ==
    Event("table", <<cost_per_shift, cost_per_hospital_per_shift, daily_costs,
                     monthly_costs, annual_costs>>)

\* Lines 133-136: the scenario description, then the cost table.
L133 ==
    /\ pc = "L133"
    /\ LET description ==
               describe_scenario(locals["prompts_per_shift"], locals["multiplier"],
                                 locals["avg_tokens_per_call"],
                                 locals["token_cost_per_thousand"],
                                 locals["doctors_per_shift"], locals["shifts_per_day"])
       IN  out' = out \o << Event("description", description),
                            display_results(locals["cost_per_shift"],
                                            locals["cost_per_hospital_per_shift"],
                                            locals["daily_costs"], locals["monthly_costs"],
                                            locals["annual_costs"]) >>
    /\ pc' = "done"
    /\ UNCHANGED <<locals, typed, calculator, args, ret>>

NoRet == [fn |-> "", a |-> <<>>, r |-> Ok(Unset)]

Init ==
    /\ pc = "L116"
    /\ locals = [n \in LocalNames |-> Unset]
    /\ out = <<>>
    /\ typed = <<>>
    /\ calculator = NoObject
    /\ args = <<>>
    /\ ret = NoRet

Next == L116 \/ L117 \/ L118 \/ L119 \/ L120 \/ L121 \/ L122 \/ L125 \/ L126 \/ L133

Spec == Init /\ [][Next]_vars

---------------------------------------------------------------------------
(* get_input and float called on their own, on every text over Alphabet of  *)
(* at most MaxLen characters.                                               *)

AllTexts == UNION {[1..n -> Alphabet] : n \in 0..MaxLen}

InitInput ==
    /\ pc = "get_input"
    /\ locals = [n \in LocalNames |-> Unset]
    /\ out = <<>>
    /\ \E user_input \in AllTexts \cup {EOF} : typed = <<user_input>>
    /\ calculator = NoObject
    /\ \E i \in 1..6 : args = <<i>>
    /\ ret = NoRet

GetInputCall ==
    /\ pc = "get_input"
    /\ LET i == args[1]
           r == get_input(Inputs[i].prompt, Inputs[i].default, typed[1])
       IN  /\ ret' = [fn |-> "get_input", a |-> <<Inputs[i].default>>, r |-> r]
           /\ out' = Append(out, PromptEvent(i))
           /\ pc' = IF r.ok THEN "float" ELSE "raised"
    /\ UNCHANGED <<locals, typed, calculator, args>>

FloatCall ==
    /\ pc = "float"
    /\ ret' = [fn |-> "float", a |-> <<ret.r.v>>, r |-> float(ret.r.v)]
    /\ pc' = "returned"
    /\ UNCHANGED <<locals, out, typed, calculator, args>>

NextInput == GetInputCall \/ FloatCall

SpecInput == InitInput /\ [][NextInput]_vars

---------------------------------------------------------------------------
(* The class used directly: a constructor call on four arguments of any    *)
(* type, then any derivation calls on the object.                          *)

ArgVals ==
    {PyInt(n) : n \in (-1)..MaxArg}
        \cup {PyFloat(5, 1), NaN, Inf(1), PyBool(TRUE), PyStr(<<"1">>), None}

\* Arguments of the derivation calls.
CallVals == {PyInt(-1), PyInt(0), PyFloat(5, 1), PyInt(2)}

InitApi ==
    /\ pc = "new"
    /\ locals = [n \in LocalNames |-> Unset]
    /\ out = <<>>
    /\ typed = <<>>
    /\ calculator = NoObject
    /\ args \in [1..4 -> ArgVals]
    /\ ret = NoRet

Construct ==
    /\ pc = "new"
    /\ LET c == init(NoObject, args[1], args[2], args[3], args[4])
       IN  /\ calculator' = c.obj
           /\ ret' = [fn |-> "__init__", a |-> args, r |-> c.r]
           /\ pc' = IF c.r.ok THEN "object" ELSE "raised"
    /\ UNCHANGED <<locals, out, typed, args>>

CallTokensPerShift ==
    /\ pc = "object"
    /\ ret' = [fn |-> "calculate_tokens_per_shift", a |-> <<>>,
               r |-> Ok(calculate_tokens_per_shift(calculator))]
    /\ UNCHANGED <<pc, locals, out, typed, calculator, args>>

CallCostPerShift ==
    /\ pc = "object"
    /\ ret' = [fn |-> "calculate_cost_per_shift", a |-> <<>>,
               r |-> Ok(calculate_cost_per_shift(calculator))]
    /\ UNCHANGED <<pc, locals, out, typed, calculator, args>>

CallCostPerHospitalPerShift ==
    /\ pc = "object"
    /\ \E d \in CallVals :
         ret' = [fn |-> "calculate_cost_per_hospital_per_shift", a |-> <<d>>,
                 r |-> Ok(calculate_cost_per_hospital_per_shift(calculator, d))]
    /\ UNCHANGED <<pc, locals, out, typed, calculator, args>>

CallDailyCosts ==
    /\ pc = "object"
    /\ \E s \in CallVals, d \in CallVals :
         ret' = [fn |-> "calculate_daily_costs", a |-> <<s, d>>,
                 r |-> Ok(calculate_daily_costs(calculator, s, d))]
    /\ UNCHANGED <<pc, locals, out, typed, calculator, args>>

CallMonthlyCosts ==
    /\ pc = "object"
    /\ \E x \in CallVals :
         ret' = [fn |-> "calculate_monthly_costs", a |-> <<x>>,
                 r |-> Ok(calculate_monthly_costs(calculator, x))]
    /\ UNCHANGED <<pc, locals, out, typed, calculator, args>>

CallAnnualCosts ==
    /\ pc = "object"
    /\ \E x \in CallVals :
         ret' = [fn |-> "calculate_annual_costs", a |-> <<x>>,
                 r |-> Ok(calculate_annual_costs(calculator, x))]
    /\ UNCHANGED <<pc, locals, out, typed, calculator, args>>

NextApi ==
    \/ Construct
    \/ CallTokensPerShift
    \/ CallCostPerShift
    \/ CallCostPerHospitalPerShift
    \/ CallDailyCosts
    \/ CallMonthlyCosts
    \/ CallAnnualCosts

SpecApi == InitApi /\ [][NextApi]_vars

---------------------------------------------------------------------------
(* Properties of the class (checked under SpecApi). *)

\* The claims' own reading of an argument.
NonNumeric(v) == v.t \in {"str", "NoneType"}
ZeroOrNegative(v) == v.t \in {"int", "float", "bool"} /\ v.sp \in {"fin", "inf"} /\ v.m <= 0
StrictlyPositive(v) == v.t \in {"int", "float", "bool"} /\ v.sp \in {"fin", "inf"} /\ v.m > 0

Constructed == pc \in {"object", "raised"}

\* C1: the constructor raises the invalid-parameter error (ValueError, "All
\* parameters should be positive numbers.") whenever one of its four arguments
\* is zero, negative or of a non-numeric type, whatever the other three are,
\* and returns normally when all four are strictly positive numbers.
C1_ConstructionValidates ==
    Constructed =>
        /\ (\E i \in 1..4 : NonNumeric(args[i]) \/ ZeroOrNegative(args[i]))
              => /\ pc = "raised"
                 /\ ~ret.r.ok
                 /\ ret.r.exc = "ValueError"
                 /\ ret.r.msg = "All parameters should be positive numbers."
        /\ (\A i \in 1..4 : StrictlyPositive(args[i]))
              => pc = "object" /\ ret.r.ok

\* C1 witness: a constructor call that raised with a zero in the third
\* position alone, the other three arguments strictly positive.
C1_Witness ==
    /\ pc = "raised"
    /\ ret.fn = "__init__"
    /\ args[3] = PyInt(0)
    /\ \A i \in {1, 2, 4} : StrictlyPositive(args[i])

\* The product of the four parameters over 1000, computed in one step from
\* the mantissas and exponents (an infinite parameter makes it infinite).
ExpectedCostPerShift(a) ==
    IF \E i \in 1..4 : a[i].sp = "inf" THEN Inf(1)
    ELSE PyFloat(a[1].m * a[2].m * a[3].m * a[4].m, a[1].e + a[2].e + a[3].e + a[4].e + 3)

\* The object whose k-th parameter is q instead.
WithParameter(a, k, q) ==
    LET b == [a EXCEPT ![k] = q]
    IN  [prompts_per_shift |-> b[1], multiplier |-> b[2],
         avg_tokens_per_call |-> b[3], token_cost_per_thousand |-> b[4]]

\* C7: on every constructed object calculate_cost_per_shift() returns
\* prompts_per_shift * multiplier * avg_tokens_per_call / 1000 *
\* token_cost_per_thousand, and raising any one parameter, the other three
\* fixed, never lowers it.
C7_CostPerShiftFormulaMonotonic ==
    (pc = "object" /\ ret.fn = "calculate_cost_per_shift") =>
        /\ ret.r.v = ExpectedCostPerShift(args)
        /\ \A k \in 1..4 : \A q \in {v \in ArgVals : StrictlyPositive(v)} :
              Leq(args[k], q)
                  => Leq(ret.r.v, calculate_cost_per_shift(WithParameter(args, k, q)))

\* C7 witness: calculate_cost_per_shift() has returned 2 * 2 * 0.5 / 1000 * 2
\* = 0.004.
C7_Witness ==
    /\ pc = "object"
    /\ ret.fn = "calculate_cost_per_shift"
    /\ args = <<PyInt(2), PyInt(2), PyFloat(5, 1), PyInt(2)>>
    /\ ret.r.v = PyFloat(4, 3)

\* C9: a constructor call that raised left none of the four attributes
\* assigned; one that returned stored exactly the four arguments, and they
\* are the same after every derivation call.
C9_ConstructionAllOrNothing ==
    /\ pc = "raised" => \A f \in FieldNames : calculator[f] = Unset
    /\ pc = "object" =>
          /\ calculator["prompts_per_shift"] = args[1]
          /\ calculator["multiplier"] = args[2]
          /\ calculator["avg_tokens_per_call"] = args[3]
          /\ calculator["token_cost_per_thousand"] = args[4]

\* C9 witness: a constructor call that raised on its last argument, the first
\* three being valid.
C9_Witness ==
    /\ pc = "raised"
    /\ \A i \in 1..3 : StrictlyPositive(args[i])
    /\ ~StrictlyPositive(args[4])

---------------------------------------------------------------------------
(* Properties of get_input (checked under SpecInput). *)

\* C2 as stated: get_input returns the default unchanged on empty input and,
\* on a non-empty input (here: one made of digits only), a number.
C2_Original ==
    pc = "float" =>
        /\ typed[1] = <<>> => ret.r.v = Inputs[args[1]].default
        /\ (typed[1] # <<>> /\ AllDigits(typed[1])) => IsInstanceIntFloat(ret.r.v)

\* C2, amended: get_input returns the default unchanged on empty input and,
\* on every non-empty input, the text typed itself, as a str; it is the
\* float() main() applies to that result that yields a number (the decimal
\* value of a text made of digits) or raises ValueError.
C2_GetInputReturnsRawText ==
    /\ pc = "float" =>
          /\ ret.fn = "get_input" /\ ret.r.ok
          /\ typed[1] = <<>> => ret.r.v = Inputs[args[1]].default
          /\ typed[1] # <<>> => ret.r.v.t = "str" /\ ret.r.v.s = typed[1]
    /\ pc = "returned" =>
          /\ ret.r.ok => ret.r.v.t = "float"
          /\ ~ret.r.ok => ret.r.exc = "ValueError" /\ typed[1] # <<>>
          /\ typed[1] = <<>> =>
                /\ ret.r.ok
                /\ ret.r.v.m = Inputs[args[1]].default.m
                /\ ret.r.v.e = Inputs[args[1]].default.e
          /\ (typed[1] # <<>> /\ AllDigits(typed[1])) =>
                ret.r.ok /\ ret.r.v = PyFloat(DigitsValue(typed[1]), 0)

\* C2 witness: get_input has returned the text "15" as typed, not the number.
C2_Witness ==
    /\ pc = "float"
    /\ typed[1] = <<"1", "5">>
    /\ ret.r.v = PyStr(<<"1", "5">>)

---------------------------------------------------------------------------
(* Properties of main() (checked under Spec). *)

Last(q) == q[Len(q)]
Count(ev) == Cardinality({k \in 1..Len(out) : out[k].ev = ev})

\* A text with an "x" in it is no number.
Malformed(text) == \E k \in 1..Len(text) : text[k] = "x"

\* All six inputs were read and converted.
AllInputsRead == Len(typed) = 6 /\ locals["shifts_per_day"] # Unset
CoreValid == \A n \in FieldNames : StrictlyPositive(locals[n])
ReportPrinted == Count("description") = 1 /\ Count("table") = 1

\* C3: a run in which an input fails to parse or the four core parameters
\* fail validation stops at that first failure: one error message, which is
\* the last thing printed, no prompt after the failing input, no scenario
\* description and no cost table.  The report is printed only in runs
\* without an error, and every run that ends without an error prints it.
C3_AbortsOnFirstFailure ==
    /\ Count("error") <= 1
    /\ Count("prompt") = Len(typed)
    /\ Count("error") = 1 =>
          /\ pc = "done"
          /\ Last(out).ev = "error"
          /\ Count("description") = 0 /\ Count("table") = 0
    /\ \A i \in 1..Len(typed) :
          Malformed(typed[i]) => i = Len(typed) /\ Count("error") = 1
    /\ (AllInputsRead /\ ~CoreValid /\ pc # "L125") => Count("error") = 1
    /\ (Count("description") >= 1 \/ Count("table") >= 1) =>
          /\ Count("error") = 0
          /\ AllInputsRead /\ CoreValid
          /\ \A i \in 1..6 : ~Malformed(typed[i])
    /\ (pc = "done" /\ Count("error") = 0) => ReportPrinted

\* C3 witness: the second input was malformed; the run ended after two
\* prompts and one error message.
C3_Witness ==
    /\ pc = "done"
    /\ typed = << <<>>, <<"x">> >>
    /\ Len(out) = 3
    /\ Count("error") = 1

ValidationFailed == pc = "done" /\ AllInputsRead /\ Count("error") = 1
ParseFailed == pc = "done" /\ Count("error") = 1 /\ Malformed(Last(typed))

\* C4 as stated: a failed validation is reported as "Invalid input: ..." and
\* malformed text at a prompt as "An unexpected error occurred: ...".
C4_Original ==
    /\ ValidationFailed => Last(out).arg[1] = "Invalid input: "
    /\ ParseFailed => Last(out).arg[1] = "An unexpected error occurred: "

\* C4, amended: a failed validation and malformed text at a prompt are both
\* reported under "Invalid input: ", with the messages "All parameters should
\* be positive numbers." and "could not convert string to float ..."; the
\* catch-all "An unexpected error occurred: " is printed only for another
\* failure, such as the end of input.
C4_ErrorMessages ==
    /\ ValidationFailed =>
          Last(out).arg = <<"Invalid input: ", "All parameters should be positive numbers.">>
    /\ ParseFailed =>
          Last(out).arg = <<"Invalid input: ", "could not convert string to float">>
    /\ (pc = "done" /\ Count("error") = 1 /\ Last(typed) = EOF) =>
          Last(out).arg = <<"An unexpected error occurred: ", "EOF when reading a line">>
    /\ (Count("error") = 1 /\ Last(out).arg[1] = "An unexpected error occurred: ") =>
          Last(typed) = EOF

\* C4 witness: malformed text was typed and reported as invalid input.
C4_Witness ==
    /\ ParseFailed
    /\ Last(typed) = <<"x">>
    /\ Last(out).arg[1] = "Invalid input: "

\* The name of a prompt or pricing event.
EventKey(ev) ==
    IF ev.ev = "prompt"
    THEN Inputs[CHOOSE i \in 1..6 : Inputs[i].prompt = ev.arg[1]].name
    ELSE ev.ev

IsExternal(ev) == ev.ev \in {"prompt", "pricing"}
ExternalOrder ==
    <<"prompts_per_shift", "multiplier", "avg_tokens_per_call", "pricing",
      "token_cost_per_thousand", "doctors_per_shift", "shifts_per_day">>

\* C5: the prompts and the pricing display occur in the one order
\* prompts-per-shift, multiplier, avg-tokens-per-call, pricing display,
\* token-cost-per-thousand, doctors-per-shift, shifts-per-day, each at most
\* once: what a run has emitted of them is always a prefix of that list, and
\* the pricing display is emitted only once the third prompt was answered
\* with a value and before the token-cost prompt is answered.
C5_FixedEventOrder ==
    LET ext == SelectSeq(out, IsExternal)
    IN  /\ Len(ext) <= 7
        /\ \A k \in 1..Len(ext) : EventKey(ext[k]) = ExternalOrder[k]
        /\ Count("pricing") = 1 =>
              Len(typed) >= 3 /\ locals["avg_tokens_per_call"] # Unset
        /\ Count("pricing") = 0 => Len(typed) <= 3

\* C5 witness: a run that issued all six prompts and the pricing display.
C5_Witness ==
    /\ pc = "done"
    /\ Len(SelectSeq(out, IsExternal)) = 7
    /\ ReportPrinted

AllDefaults == Len(typed) = 6 /\ \A i \in 1..6 : typed[i] = <<>>

\* C6: with every prompt answered by empty input the run prints the report
\* with TokensPerShift = 500000, CostPerShift = 30, CostPerHospitalPerShift =
\* 300, DailyCost = 900, MonthlyCost = 27000 and AnnualCost = 324000.
C6_DefaultScenario ==
    (pc = "done" /\ AllDefaults) =>
        /\ Count("error") = 0
        /\ ReportPrinted
        /\ calculate_tokens_per_shift(calculator) = PyFloat(500000, 0)
        /\ Last(out).ev = "table"
        /\ Last(out).arg = <<PyFloat(30, 0), PyFloat(300, 0), PyFloat(900, 0),
                             PyFloat(27000, 0), PyFloat(324000, 0)>>

\* C6 witness: the run on all defaults has ended with its cost table.
C6_Witness ==
    /\ pc = "done"
    /\ AllDefaults
    /\ Last(out).ev = "table"
    /\ Last(out).arg[5] = PyFloat(324000, 0)

\* C8: in every report the five figures are chained: hospital-per-shift =
\* cost-per-shift * doctors_per_shift, daily = hospital-per-shift *
\* shifts_per_day, monthly = daily * 30, annual = monthly * 12, and so
\* annual = daily * 30 * 12.
C8_FiguresChained ==
    (pc = "done" /\ Count("table") = 1) =>
        LET f == Last(out).arg
        IN  /\ f[1] = calculate_cost_per_shift(calculator)
            /\ f[2] = Mul(f[1], locals["doctors_per_shift"])
            /\ f[3] = Mul(f[2], locals["shifts_per_day"])
            /\ f[4] = Mul(f[3], PyInt(30))
            /\ f[5] = Mul(f[4], PyInt(12))
            /\ f[5] = Mul(Mul(f[3], PyInt(30)), PyInt(12))

\* C8 witness: a report for half a doctor per shift, daily cost 0.5 * 0.5 *
\* 0.5 / 1000 * 0.5 * 0.5 * 1 = 0.00003125.
C8_Witness ==
    /\ pc = "done"
    /\ Count("table") = 1
    /\ typed = << <<".", "5">>, <<".", "5">>, <<".", "5">>, <<".", "5">>, <<".", "5">>, <<"1">> >>
    /\ Last(out).arg[3] = PyFloat(3125, 8)
    /\ Last(out).arg[5] = PyFloat(1125, 5)

AllFinite == \A n \in InputNames : locals[n].sp = "fin"

\* C10 as stated: doctors_per_shift and shifts_per_day are not validated, and
\* when either is zero or negative the report's hospital-per-shift, daily,
\* monthly and annual costs are zero or negative (stated for finite inputs).
C10_Original ==
    (pc = "done" /\ AllInputsRead /\ CoreValid /\ AllFinite
        /\ (locals["doctors_per_shift"].m <= 0 \/ locals["shifts_per_day"].m <= 0)) =>
        /\ Count("error") = 0
        /\ ReportPrinted
        /\ \A k \in 2..5 : Last(out).arg[k].m <= 0

\* C10, amended: doctors_per_shift and shifts_per_day are never validated:
\* with the four core parameters valid every parseable value for them is
\* accepted without an error message and the report is printed.  For finite
\* inputs its hospital-per-shift cost is zero or negative exactly when
\* doctors_per_shift <= 0, and its daily, monthly and annual costs are zero
\* or negative exactly when doctors_per_shift * shifts_per_day <= 0.
C10_ReportingInputsUnvalidated ==
    (pc = "done" /\ AllInputsRead /\ CoreValid) =>
        /\ Count("error") = 0
        /\ ReportPrinted
        /\ Last(out).ev = "table"
        /\ AllFinite =>
              LET d == locals["doctors_per_shift"].m
                  s == locals["shifts_per_day"].m
              IN  /\ Last(out).arg[2].m <= 0 <=> d <= 0
                  /\ \A k \in 3..5 : Last(out).arg[k].m <= 0 <=> Sgn(d) * Sgn(s) <= 0

\* C10 witness: both typed as -1; the report shows a negative
\* hospital-per-shift cost and a positive daily cost.
C10_Witness ==
    /\ pc = "done"
    /\ ReportPrinted
    /\ typed[5] = <<"-", "1">> /\ typed[6] = <<"-", "1">>
    /\ Last(out).arg[2].m < 0
    /\ Last(out).arg[3].m > 0

=============================================================================
